---------------------------- MODULE Spec2Model ----------------------------
(***************************************************************************)
(* proptest-semver: proptest strategies for Semantic Versioning values,    *)
(* checked against the semver crate (the oracle).                          *)
(*                                                                         *)
(* A strategy is modelled as the set of values it can yield.  A text is a  *)
(* sequence of one-character strings.  A u64 is an integer of U64Bits      *)
(* bits, so that the oracle's overflow of a numeric component is reached   *)
(* by short texts.  One action draws one value from one strategy, as one   *)
(* case of a proptest run does.                                            *)
(***************************************************************************)
EXTENDS Integers, Sequences, FiniteSets, TLC

VARIABLES fn, args, draw, text, out

vars == <<fn, args, draw, text, out>>

(***************************************************************************)
(* Bounds of the model.                                                    *)
(***************************************************************************)
\* Width in bits of the modelled u64.
U64Bits == 4
\* Longest text drawn from SEMVER_REGEX.
MaxSemverLen == 8
\* Longest text drawn from the pre-release and build-metadata patterns.
MaxIdLen == 3
\* Largest max_len handed to the bounded sequence generators.
MaxLenArg == 4
\* Largest weight handed to a weighted choice.
MaxWeight == 1

U64MAX == 2 ^ U64Bits - 1

(***************************************************************************)
(* Characters.                                                             *)
(***************************************************************************)
DigitChars == <<"0", "1", "2", "3", "4", "5", "6", "7", "8", "9">>

AsciiDigits == {DigitChars[i] : i \in 1..10}

AsciiLetters ==
    {"a", "b", "c", "d", "e", "f", "g", "h", "i", "j", "k", "l", "m",
     "n", "o", "p", "q", "r", "s", "t", "u", "v", "w", "x", "y", "z",
     "A", "B", "C", "D", "E", "F", "G", "H", "I", "J", "K", "L", "M",
     "N", "O", "P", "Q", "R", "S", "T", "U", "V", "W", "X", "Y", "Z"}

AsciiChars ==
    AsciiDigits \cup AsciiLetters \cup
    {"-", ".", "+", "*", ",", "=", "<", ">", "~", "^", " "}

\* A decimal digit outside ASCII (ARABIC-INDIC DIGIT THREE), which \d matches
\* only in a pattern compiled with Unicode classes.
NonAsciiDigit == "U+0663"

is_ascii(s) == \A i \in 1..Len(s) : s[i] \in AsciiChars

DigitValue(c) == CHOOSE d \in 0..9 : DigitChars[d + 1] = c

RECURSIVE to_string(_)
\* u64::to_string: the decimal rendering.
to_string(v) ==
    IF v < 10 THEN <<DigitChars[v + 1]>>
    ELSE to_string(v \div 10) \o <<DigitChars[(v % 10) + 1]>>

StartsWith(s, c) == Len(s) > 0 /\ s[1] = c

From(s, i) == SubSeq(s, i, Len(s))

RECURSIVE trim_start_spaces(_)
trim_start_spaces(s) ==
    IF StartsWith(s, " ") THEN trim_start_spaces(Tail(s)) ELSE s

(***************************************************************************)
(* Options.                                                                *)
(***************************************************************************)
NoneStr == [some |-> FALSE, v |-> <<>>]
NoneNum == [some |-> FALSE, v |-> 0]
Some(x) == [some |-> TRUE, v |-> x]
unwrap_or(o, d) == IF o.some THEN o.v ELSE d

(***************************************************************************)
(* The oracle: the semver crate's parsers.                                 *)
(***************************************************************************)
NumOk(v, rest) == [ok |-> TRUE, err |-> "", value |-> v, rest |-> rest]
NumErr(e) == [ok |-> FALSE, err |-> e, value |-> 0, rest |-> <<>>]

RECURSIVE numeric_loop(_, _, _)
numeric_loop(input, len, value) ==
    IF len < Len(input) /\ input[len + 1] \in AsciiDigits
    THEN IF value = 0 /\ len > 0
         THEN NumErr("LeadingZero")
         ELSE LET sum == value * 10 + DigitValue(input[len + 1])
              IN  IF sum > U64MAX
                  THEN NumErr("Overflow")
                  ELSE numeric_loop(input, len + 1, sum)
    ELSE IF len > 0
         THEN NumOk(value, From(input, len + 1))
         ELSE IF Len(input) > 0
              THEN NumErr("UnexpectedChar")
              ELSE NumErr("UnexpectedEnd")

numeric_identifier(input) == numeric_loop(input, 0, 0)

IdOk(id, rest) == [ok |-> TRUE, err |-> "", id |-> id, rest |-> rest]
IdErr(e) == [ok |-> FALSE, err |-> e, id |-> <<>>, rest |-> <<>>]

RECURSIVE identifier_loop(_, _, _, _, _)
identifier_loop(input, pos, acc, seg, nondigit) ==
    LET i == acc + seg + 1
        has == i <= Len(input)
    IN  IF has /\ input[i] \in AsciiLetters \cup {"-"}
        THEN identifier_loop(input, pos, acc, seg + 1, TRUE)
        ELSE IF has /\ input[i] \in AsciiDigits
        THEN identifier_loop(input, pos, acc, seg + 1, nondigit)
        ELSE LET isDot == has /\ input[i] = "."
             IN  IF seg = 0
                 THEN IF acc = 0 /\ ~isDot
                      THEN IdOk(<<>>, input)
                      ELSE IdErr("EmptySegment")
                 ELSE IF pos = "Pre" /\ seg > 1 /\ ~nondigit
                         /\ input[acc + 1] = "0"
                 THEN IdErr("LeadingZero")
                 ELSE IF isDot
                 THEN identifier_loop(input, pos, acc + seg + 1, 0, FALSE)
                 ELSE IdOk(SubSeq(input, 1, acc + seg),
                           From(input, acc + seg + 1))

identifier(input, pos) == identifier_loop(input, pos, 0, 0, FALSE)

\* Prerelease::new / BuildMetadata::new: the whole text is one identifier.
whole_identifier(r) ==
    IF ~r.ok THEN r
    ELSE IF Len(r.rest) > 0 THEN IdErr("IllegalCharacter") ELSE r

Prerelease_new(s) == whole_identifier(identifier(s, "Pre"))

BuildMetadata_new(s) == whole_identifier(identifier(s, "Build"))

EMPTY == <<>>

Version(major, minor, patch, pre, build) ==
    [major |-> major, minor |-> minor, patch |-> patch,
     pre |-> pre, build |-> build]

VerOk(v) == [ok |-> TRUE, err |-> "", value |-> v]
VerErr(e) == [ok |-> FALSE, err |-> e, value |-> Version(0, 0, 0, EMPTY, EMPTY)]

\* Version::from_str after the build metadata b was read: the end of input.
Version_parse_end(major, minor, patch, pre, hasBuild, b) ==
    IF ~b.ok THEN VerErr(b.err)
    ELSE IF hasBuild /\ b.id = EMPTY THEN VerErr("EmptySegment")
    ELSE IF Len(b.rest) > 0 THEN VerErr("UnexpectedCharAfter")
    ELSE VerOk(Version(major, minor, patch, pre, b.id))

\* Version::from_str after the pre-release p was read: the optional "+build".
Version_parse_build(major, minor, patch, hasPre, p) ==
    IF ~p.ok THEN VerErr(p.err)
    ELSE IF hasPre /\ p.id = EMPTY THEN VerErr("EmptySegment")
    ELSE Version_parse_end(major, minor, patch, p.id, StartsWith(p.rest, "+"),
                           IF StartsWith(p.rest, "+")
                           THEN identifier(Tail(p.rest), "Build")
                           ELSE IdOk(EMPTY, p.rest))

\* The optional "-pre" and "+build" tail of a version.
Version_parse_tail(major, minor, patch, t) ==
    Version_parse_build(major, minor, patch, StartsWith(t, "-"),
                        IF StartsWith(t, "-")
                        THEN identifier(Tail(t), "Pre")
                        ELSE IdOk(EMPTY, t))

\* Version::from_str after the patch pa was read.
Version_parse_patch(ma, mi, pa) ==
    IF ~pa.ok THEN VerErr(pa.err)
    ELSE IF Len(pa.rest) = 0
    THEN VerOk(Version(ma.value, mi.value, pa.value, EMPTY, EMPTY))
    ELSE Version_parse_tail(ma.value, mi.value, pa.value, pa.rest)

\* Version::from_str after the minor mi was read: the dot and the patch.
Version_parse_minor(ma, mi) ==
    IF ~mi.ok THEN VerErr(mi.err)
    ELSE IF ~StartsWith(mi.rest, ".") THEN VerErr("UnexpectedChar")
    ELSE Version_parse_patch(ma, mi, numeric_identifier(Tail(mi.rest)))

\* Version::from_str after the major ma was read: the dot and the minor.
Version_parse_major(ma) ==
    IF ~ma.ok THEN VerErr(ma.err)
    ELSE IF ~StartsWith(ma.rest, ".") THEN VerErr("UnexpectedChar")
    ELSE Version_parse_minor(ma, numeric_identifier(Tail(ma.rest)))

\* Version::parse.
Version_parse(s) ==
    IF Len(s) = 0 THEN VerErr("Empty")
    ELSE Version_parse_major(numeric_identifier(s))

\* The text of semver::Error for a numeric component above u64::MAX holds
\* "version number exceeds u64::MAX".
IsOverflowError(r) == ~r.ok /\ r.err = "Overflow"


Comparator(o, major, minor, patch, pre) ==
    [op |-> o, major |-> major, minor |-> minor, patch |-> patch, pre |-> pre]

\* parse::op: the operator a comparator's text starts with; with none, Caret
\* and the text as it is.
op(input) ==
    IF StartsWith(input, "=") THEN [op |-> "Exact", rest |-> Tail(input)]
    ELSE IF StartsWith(input, ">")
    THEN IF StartsWith(Tail(input), "=")
         THEN [op |-> "GreaterEq", rest |-> From(input, 3)]
         ELSE [op |-> "Greater", rest |-> Tail(input)]
    ELSE IF StartsWith(input, "<")
    THEN IF StartsWith(Tail(input), "=")
         THEN [op |-> "LessEq", rest |-> From(input, 3)]
         ELSE [op |-> "Less", rest |-> Tail(input)]
    ELSE IF StartsWith(input, "~") THEN [op |-> "Tilde", rest |-> Tail(input)]
    ELSE IF StartsWith(input, "^") THEN [op |-> "Caret", rest |-> Tail(input)]
    ELSE [op |-> "Caret", rest |-> input]

\* parse::wildcard: '*', 'x' or 'X'.
wildcard(input) == Len(input) > 0 /\ input[1] \in {"*", "x", "X"}

CmpOk(c, rest) == [ok |-> TRUE, err |-> "", value |-> c, rest |-> rest]
CmpErr(e) ==
    [ok |-> FALSE, err |-> e,
     value |-> Comparator("Caret", 0, NoneNum, NoneNum, EMPTY), rest |-> <<>>]

\* parse::comparator after the build metadata b was read (and dropped).
comparator_end(o, major, minor, patch, pre, hasBuild, b) ==
    IF ~b.ok THEN CmpErr(b.err)
    ELSE IF hasBuild /\ b.id = EMPTY THEN CmpErr("EmptySegment")
    ELSE CmpOk(Comparator(o, major, minor, patch, pre),
               trim_start_spaces(b.rest))

\* parse::comparator after the pre-release p was read: the optional "+build".
comparator_build(o, major, minor, patch, hasPre, p) ==
    IF ~p.ok THEN CmpErr(p.err)
    ELSE IF hasPre /\ p.id = EMPTY THEN CmpErr("EmptySegment")
    ELSE comparator_end(o, major, minor, patch, p.id,
                        patch.some /\ StartsWith(p.rest, "+"),
                        IF patch.some /\ StartsWith(p.rest, "+")
                        THEN identifier(Tail(p.rest), "Build")
                        ELSE IdOk(EMPTY, p.rest))

\* The "-pre" and "+build" tail of a comparator, read only after a patch.
comparator_tail(o, major, minor, patch, t) ==
    comparator_build(o, major, minor, patch, patch.some /\ StartsWith(t, "-"),
                     IF patch.some /\ StartsWith(t, "-")
                     THEN identifier(Tail(t), "Pre")
                     ELSE IdOk(EMPTY, t))

\* parse::comparator after a numeric patch pa was read.
comparator_patch_number(o, major, minor, pa) ==
    IF ~pa.ok THEN CmpErr(pa.err)
    ELSE comparator_tail(o, major, minor, Some(pa.value), pa.rest)

\* The ".patch" part of a comparator.
comparator_patch(o, defaultOp, major, minor, hasWildcard, t) ==
    IF ~StartsWith(t, ".")
    THEN comparator_tail(o, major, minor, NoneNum, t)
    ELSE IF wildcard(Tail(t))
    THEN comparator_tail(IF defaultOp THEN "Wildcard" ELSE o,
                         major, minor, NoneNum, From(t, 3))
    ELSE IF hasWildcard THEN CmpErr("UnexpectedAfterWildcard")
    ELSE comparator_patch_number(o, major, minor, numeric_identifier(Tail(t)))

\* parse::comparator after a numeric minor mi was read.
comparator_minor(o, defaultOp, major, mi) ==
    IF ~mi.ok THEN CmpErr(mi.err)
    ELSE comparator_patch(o, defaultOp, major, Some(mi.value), FALSE, mi.rest)

\* parse::comparator after the major ma was read: the ".minor" part.
comparator_major(o, defaultOp, ma) ==
    IF ~ma.ok THEN CmpErr(ma.err)
    ELSE IF ~StartsWith(ma.rest, ".")
    THEN comparator_patch(o, defaultOp, ma.value, NoneNum, FALSE, ma.rest)
    ELSE IF wildcard(Tail(ma.rest))
    THEN comparator_patch(IF defaultOp THEN "Wildcard" ELSE o, defaultOp,
                          ma.value, NoneNum, TRUE, From(ma.rest, 3))
    ELSE comparator_minor(o, defaultOp, ma.value,
                          numeric_identifier(Tail(ma.rest)))

\* parse::comparator after the operator o was read: the major.
comparator_op(input, o) ==
    comparator_major(o.op, Len(input) = Len(o.rest),
                     numeric_identifier(trim_start_spaces(o.rest)))

\* parse::comparator.
comparator(input) == comparator_op(input, op(input))

\* No text may follow the comparator r.
whole_comparator(r) ==
    IF ~r.ok THEN r
    ELSE IF Len(r.rest) > 0 THEN CmpErr("UnexpectedCharAfter") ELSE r

\* Comparator::parse.
Comparator_parse(s) == whole_comparator(comparator(trim_start_spaces(s)))

\* The oracle's limit on the comparators of one requirement text.
MAX_COMPARATORS == 32

ReqOk(cs) == [ok |-> TRUE, err |-> "", comparators |-> cs]
ReqErr(e) == [ok |-> FALSE, err |-> e, comparators |-> <<>>]

\* A wildcard where a comparator of a list is expected.
wildcard_in_list(input) ==
    /\ wildcard(input)
    /\ \/ Len(trim_start_spaces(Tail(input))) = 0
       \/ StartsWith(trim_start_spaces(Tail(input)), ",")

(***************************************************************************)
(* parse::version_req reads one comparator, then a comma, then calls       *)
(* itself on what follows with depth + 1.  No comparator holds a comma, so *)
(* the call at depth d reads what follows the comma number d of the text;  *)
(* the model computes each call from that position, and the result from    *)
(* the first call that does not go on.                                     *)
(***************************************************************************)
comma_position(commas, k) ==
    CHOOSE i \in commas : Cardinality({j \in commas : j <= i}) = k

\* The input of the call at depth.
version_req_input(input, commas, depth) ==
    IF depth = 0 THEN input
    ELSE trim_start_spaces(From(input, comma_position(commas, depth) + 1))

\* What the call at depth does once its comparator c is read: "End" when the
\* text ends, "More" when it calls itself, the error otherwise.
version_req_step(input, depth, c) ==
    IF ~c.ok
    THEN IF wildcard_in_list(input)
         THEN "WildcardNotTheOnlyComparator"
         ELSE c.err
    ELSE IF Len(c.rest) = 0 THEN "End"
    ELSE IF ~StartsWith(c.rest, ",") THEN "ExpectedCommaFound"
    ELSE IF depth + 1 = MAX_COMPARATORS THEN "ExcessiveComparators"
    ELSE "More"

\* The comparator and the step of the call at each depth.
version_req_call_of(input, depth, c) ==
    [c |-> c, step |-> version_req_step(input, depth, c)]

version_req_call(input, depth) ==
    version_req_call_of(input, depth, comparator(input))

version_req_calls(input, commas) ==
    [d \in 0..Cardinality(commas) |->
        version_req_call(version_req_input(input, commas, d), d)]

Least(S) == CHOOSE d \in S : \A e \in S : d <= e

\* The depth of the call the recursion stops at.
version_req_last(calls) ==
    Least({d \in DOMAIN calls : calls[d].step # "More"})

\* The result, the recursion having stopped at depth last.
version_req_result(calls, last) ==
    IF calls[last].step = "End"
    THEN ReqOk([k \in 1..(last + 1) |-> calls[k - 1].c.value])
    ELSE ReqErr(calls[last].step)

version_req_from(calls) == version_req_result(calls, version_req_last(calls))

\* parse::version_req, called at depth 0.
version_req(input) ==
    version_req_from(version_req_calls(
        input, {i \in 1..Len(input) : input[i] = ","}))

\* VersionReq::parse after the leading spaces were dropped.
VersionReq_parse_trimmed(t) ==
    IF wildcard(t)
    THEN IF Len(trim_start_spaces(Tail(t))) = 0 THEN ReqOk(<<>>)
         ELSE IF StartsWith(trim_start_spaces(Tail(t)), ",")
         THEN ReqErr("WildcardNotTheOnlyComparator")
         ELSE ReqErr("UnexpectedAfterWildcard")
    ELSE version_req(t)

\* VersionReq::parse.
VersionReq_parse(s) == VersionReq_parse_trimmed(trim_start_spaces(s))


(***************************************************************************)
(* The grammar patterns, each as the set of texts the pattern generates,   *)
(* up to a length.  The character classes are sampled: \d by RegexDigits,  *)
(* [a-zA-Z-] by RegexAlphaHyphen.  unicode is FALSE under (?-u: ... ).     *)
(***************************************************************************)
RegexDigits == {"0", "1", "6"}

RegexAlphaHyphen == {"a", "-"}

SeqsUpTo(S, k) == UNION {[1..n -> S] : n \in 0..k}

\* \d
class_d(unicode) == RegexDigits \cup (IF unicode THEN {NonAsciiDigit} ELSE {})

\* [1-9]
class_1_9 == RegexDigits \ {"0"}

\* [0-9a-zA-Z-]
class_alnum_hyphen == RegexDigits \cup RegexAlphaHyphen

\* A slip of the pattern: \d+, which allows leading zeros.
NumericPattern_leading_zeros(k, unicode) ==
    SeqsUpTo(class_d(unicode), k) \ {<<>>}

\* 0|[1-9]\d*
NumericPattern(k, unicode) ==
    IF k < 1 THEN {}
    ELSE {<<"0">>} \cup
         {<<h>> \o t : h \in class_1_9, t \in SeqsUpTo(class_d(unicode), k - 1)}

\* 0|[1-9]\d*|\d*[a-zA-Z-][0-9a-zA-Z-]*
PreIdentPattern(k, unicode) ==
    NumericPattern(k, unicode) \cup
    UNION {{d \o <<c>> \o t :
                c \in RegexAlphaHyphen,
                t \in SeqsUpTo(class_alnum_hyphen, k - 1 - Len(d))} :
           d \in SeqsUpTo(class_d(unicode), k - 1)}

RECURSIVE PreReleasePattern(_, _)
\* ident(?:\.ident)*, ident a pre-release identifier
PreReleasePattern(k, unicode) ==
    IF k < 1 THEN {}
    ELSE PreIdentPattern(k, unicode) \cup
         UNION {{h \o <<".">> \o t :
                     t \in PreReleasePattern(k - Len(h) - 1, unicode)} :
                h \in PreIdentPattern(k - 2, unicode)}

\* [0-9a-zA-Z-]+
BuildIdentPattern(k) == SeqsUpTo(class_alnum_hyphen, k) \ {<<>>}

RECURSIVE BuildPattern(_)
\* [0-9a-zA-Z-]+(?:\.[0-9a-zA-Z-]+)*
BuildPattern(k) ==
    IF k < 1 THEN {}
    ELSE BuildIdentPattern(k) \cup
         UNION {{h \o <<".">> \o t : t \in BuildPattern(k - Len(h) - 1)} :
                h \in BuildIdentPattern(k - 2)}

\* (?:-(pre-release))?
SometimesPreRelease(k, unicode) ==
    {<<>>} \cup {<<"-">> \o p : p \in PreReleasePattern(k - 1, unicode)}

\* (?:\+(build))?
SometimesBuildMetadata(k) ==
    {<<>>} \cup {<<"+">> \o b : b \in BuildPattern(k - 1)}

ALWAYS_PRERELEASE_REGEX == PreReleasePattern(MaxIdLen, FALSE)

ALWAYS_BUILD_METADATA_REGEX == BuildPattern(MaxIdLen)


(***************************************************************************)
(* proptest's combinators.                                                 *)
(***************************************************************************)
RECURSIVE SumTo(_, _)
SumTo(w, i) == IF i = 0 THEN 0 ELSE SumTo(w, i - 1) + w[i]

\* strategy::unions::pick_weighted, for every value the rng can give: the
\* indexes (from 1) a TupleUnion of these weights can pick.  With a sum of
\* zero the rng is asked for a value of an empty range and panics.
pick_weighted(w) ==
    {Cardinality({i \in 1..Len(w) : SumTo(w, i) <= pick}) + 1 :
        pick \in 0..(SumTo(w, Len(w)) - 1)}

union_panics(w) == SumTo(w, Len(w)) = 0

\* Probabilities are in tenths: 0 is 0.0, 5 is 0.5, 10 is 1.0.
\* prop::option::weighted(p, S): Some with probability p.
OptionWeighted(p, S) ==
    (IF p > 0 THEN {Some(x) : x \in S} ELSE {}) \cup
    (IF p < 10 THEN {NoneStr} ELSE {})

\* The draws the model follows through a composite strategy: None, and of the
\* Some values the shortest ones.
Short(O) == {o \in O : o.some => \A q \in O : q.some => Len(o.v) <= Len(q.v)}

\* A vector of n draws: the model follows the vectors that alternate two
\* draws a and b of the pool.
Alternate(a, b, n) ==
    IF n = 0 THEN <<>> ELSE [i \in 1..n |-> IF i % 2 = 1 THEN a ELSE b]

\* prop::collection::vec(element, lo..hi): a length of lo..hi-1, and a panic
\* for an empty range.
vec_range_panics(lo, hi) == hi <= lo

\* Of the lengths of the range, the model follows the two at each end.
SizeDraws(lo, hi) == {n \in lo..(hi - 1) : n <= lo + 1 \/ n >= hi - 2}

CollectionVecRange(pool, lo, hi) ==
    {Alternate(a, b, n) : a \in pool, b \in pool, n \in SizeDraws(lo, hi)}

\* prop::collection::vec(element, n): exactly n elements.
CollectionVecExact(pool, n) == {Alternate(a, b, n) : a \in pool, b \in pool}

\* any::<u64>(): the model follows the two ends of the range.
any_u64 == {0, U64MAX}

\* any::<Option<u64>>()
any_Option_u64 == {NoneNum} \cup {Some(v) : v \in any_u64}


(***************************************************************************)
(* The library's constants.                                                *)
(***************************************************************************)
\* A slip of the constant: one more than the oracle's limit.
LimitOffByOne == MAX_COMPARATORS + 1

MAX_COMPARATORS_IN_VERSION_REQ_STRING == 32

DEFAULT_PROBABILITY_OF_PRE_RELEASE == 5

DEFAULT_PROBABILITY_OF_BUILD_METADATA == 5

(***************************************************************************)
(* The arguments the model calls the generators with.                      *)
(***************************************************************************)
ProbabilityArgs == {0, 5, 10}

WeightArgs == {NoneNum} \cup {Some(w) : w \in 0..MaxWeight}

MaxComparatorsArgs ==
    (0..2) \cup {MAX_COMPARATORS_IN_VERSION_REQ_STRING - 1,
                 MAX_COMPARATORS_IN_VERSION_REQ_STRING,
                 MAX_COMPARATORS_IN_VERSION_REQ_STRING + 1}

MaxLenArgs == 0..MaxLenArg

(***************************************************************************)
(* Primitive strategies.                                                   *)
(***************************************************************************)
arb_pre_release_string == ALWAYS_PRERELEASE_REGEX

\* Each value is the outcome of Prerelease::new, which the strategy unwraps.
arb_semver_prerelease == {Prerelease_new(pr) : pr \in arb_pre_release_string}

arb_option_pre_release_string(probability_of_some) ==
    OptionWeighted(probability_of_some, ALWAYS_PRERELEASE_REGEX)

OptOutcome(o, r) == [ok |-> r.ok, some |-> o.some, v |-> r.id]

arb_option_semver_prerelease(probability_of_some) ==
    {OptOutcome(pr, IF pr.some THEN Prerelease_new(pr.v) ELSE IdOk(EMPTY, <<>>)) :
        pr \in arb_option_pre_release_string(probability_of_some)}

arb_build_metadata_string == ALWAYS_BUILD_METADATA_REGEX

arb_semver_build_metadata ==
    {BuildMetadata_new(bm) : bm \in arb_build_metadata_string}

arb_option_build_metadata_string(probability_of_some) ==
    OptionWeighted(probability_of_some, ALWAYS_BUILD_METADATA_REGEX)

arb_option_semver_build_metadata(probability_of_some) ==
    {OptOutcome(bm, IF bm.some THEN BuildMetadata_new(bm.v) ELSE IdOk(EMPTY, <<>>)) :
        bm \in arb_option_build_metadata_string(probability_of_some)}

(***************************************************************************)
(* Operators.                                                              *)
(***************************************************************************)
SemverOps ==
    <<"Exact", "Greater", "GreaterEq", "Less", "LessEq", "Tilde", "Caret",
      "Wildcard">>

\* A slip of arb_semver_op: wildcard_weight on the arm of Caret.
semver_op_weights_misplaced(default_weight, wildcard_weight) ==
    LET dw == unwrap_or(default_weight, 5)
        ww == unwrap_or(wildcard_weight, 1)
    IN  <<dw, dw, dw, dw, dw, dw, ww, dw>>

semver_op_weights(default_weight, wildcard_weight) ==
    LET dw == unwrap_or(default_weight, 5)
        ww == unwrap_or(wildcard_weight, 1)
    IN  <<dw, dw, dw, dw, dw, dw, dw, ww>>

arb_semver_op(default_weight, wildcard_weight) ==
    {SemverOps[i] :
        i \in pick_weighted(semver_op_weights(default_weight, wildcard_weight))}

\* #[derive(Arbitrary)] enum ComparatorOp
ComparatorOp ==
    {"Exact", "Greater", "GreaterEq", "Less", "LessEq", "Tilde", "Caret"}

\* A slip of the Display of ComparatorOp: GreaterEq and LessEq with the '='
\* first.
ComparatorOp_fmt_equals_first(o) ==
    CASE o = "Exact" -> <<"=">>
      [] o = "Greater" -> <<">">>
      [] o = "GreaterEq" -> <<"=", ">">>
      [] o = "Less" -> <<"<">>
      [] o = "LessEq" -> <<"=", "<">>
      [] o = "Tilde" -> <<"~">>
      [] o = "Caret" -> <<"^">>

\* impl fmt::Display for ComparatorOp
ComparatorOp_fmt(o) ==
    CASE o = "Exact" -> <<"=">>
      [] o = "Greater" -> <<">">>
      [] o = "GreaterEq" -> <<">", "=">>
      [] o = "Less" -> <<"<">>
      [] o = "LessEq" -> <<"<", "=">>
      [] o = "Tilde" -> <<"~">>
      [] o = "Caret" -> <<"^">>

(***************************************************************************)
(* Versions.                                                               *)
(***************************************************************************)
\* A slip of the match: the build metadata alone after a '-'.
fmt_string_wrong_separator(major, minor, patch, pr, bm) ==
    LET mmp == major \o <<".">> \o minor \o <<".">> \o patch
    IN  CASE ~pr.some /\ ~bm.some -> mmp
          [] ~pr.some /\ bm.some -> mmp \o <<"-">> \o bm.v
          [] pr.some /\ ~bm.some -> mmp \o <<"-">> \o pr.v
          [] pr.some /\ bm.some -> mmp \o <<"-">> \o pr.v \o <<"+">> \o bm.v

\* The match of arb_version_weighted over (pr, bm).
fmt_string(major, minor, patch, pr, bm) ==
    LET mmp == major \o <<".">> \o minor \o <<".">> \o patch
    IN  CASE ~pr.some /\ ~bm.some -> mmp
          [] ~pr.some /\ bm.some -> mmp \o <<"+">> \o bm.v
          [] pr.some /\ ~bm.some -> mmp \o <<"-">> \o pr.v
          [] pr.some /\ bm.some -> mmp \o <<"-">> \o pr.v \o <<"+">> \o bm.v

VersionStringOutcome(major, minor, patch, pr, bm) ==
    LET s == fmt_string(major, minor, patch, pr, bm)
        r == Version_parse(s)
    IN  [ok |-> r.ok, value |-> r.value, text |-> s,
         major |-> major, minor |-> minor, patch |-> patch,
         pr |-> pr, bm |-> bm]

\* A slip of arb_version_weighted: major drawn from the pattern
\* ANY_MAJOR_MINOR_PATH_COMPONENT, digits of any length, and not from u64.
arb_version_weighted_major_of_pattern(probability_of_pre_release, probability_of_build_metadata) ==
    {VersionStringOutcome(major, to_string(minor), to_string(patch), pr, bm) :
        major \in NumericPattern(2, FALSE), minor \in any_u64,
        patch \in any_u64,
        pr \in Short(arb_option_pre_release_string(probability_of_pre_release)),
        bm \in Short(arb_option_build_metadata_string(
                        probability_of_build_metadata))}

\* Each value holds what was drawn, the text formatted and the outcome of
\* Version::parse, which the strategy unwraps.
arb_version_weighted(probability_of_pre_release, probability_of_build_metadata) ==
    {VersionStringOutcome(to_string(major), to_string(minor), to_string(patch),
                          pr, bm) :
        major \in any_u64, minor \in any_u64, patch \in any_u64,
        pr \in Short(arb_option_pre_release_string(probability_of_pre_release)),
        bm \in Short(arb_option_build_metadata_string(
                        probability_of_build_metadata))}

arb_version ==
    arb_version_weighted(DEFAULT_PROBABILITY_OF_PRE_RELEASE,
                         DEFAULT_PROBABILITY_OF_BUILD_METADATA)

\* A slip of the struct path: the pre-release drawn is dropped.
VersionStructOutcome_drops_pre(major, minor, patch, pre, build) ==
    LET noPre == Prerelease_new(<<>>)
        noBuild == BuildMetadata_new(<<>>)
    IN  [ok |-> pre.ok /\ build.ok /\ noPre.ok /\ noBuild.ok,
         value |-> Version(major, minor, patch, noPre.id,
                           IF build.some THEN build.v ELSE noBuild.id),
         pre |-> pre, build |-> build]

VersionStructOutcome(major, minor, patch, pre, build) ==
    LET noPre == Prerelease_new(<<>>)
        noBuild == BuildMetadata_new(<<>>)
    IN  [ok |-> pre.ok /\ build.ok /\ noPre.ok /\ noBuild.ok,
         value |-> Version(major, minor, patch,
                           IF pre.some THEN pre.v ELSE noPre.id,
                           IF build.some THEN build.v ELSE noBuild.id),
         pre |-> pre, build |-> build]

arb_semver_version_weighted(probability_of_pre_release, probability_of_build_metadata) ==
    {VersionStructOutcome(major, minor, patch, pre, build) :
        major \in any_u64, minor \in any_u64, patch \in any_u64,
        pre \in Short(arb_option_semver_prerelease(probability_of_pre_release)),
        build \in Short(arb_option_semver_build_metadata(
                           probability_of_build_metadata))}

arb_semver_version ==
    {VersionStructOutcome(major, minor, patch, pre, build) :
        major \in any_u64, minor \in any_u64, patch \in any_u64,
        pre \in Short(arb_option_semver_prerelease(
                         DEFAULT_PROBABILITY_OF_PRE_RELEASE)),
        build \in Short(arb_option_semver_build_metadata(
                           DEFAULT_PROBABILITY_OF_BUILD_METADATA))}


(***************************************************************************)
(* The structural comparator model.                                        *)
(***************************************************************************)
Plain(o, major, minor, patch, pr, bm) ==
    [kind |-> "Plain", op |-> o, major |-> major, minor |-> minor,
     patch |-> patch, pr |-> pr, bm |-> bm]

WildcardMinor(o, major) ==
    [kind |-> "WildcardMinor", op |-> o, major |-> major, minor |-> 0,
     patch |-> 0, pr |-> NoneStr, bm |-> NoneStr]

WildcardPatch(o, major, minor) ==
    [kind |-> "WildcardPatch", op |-> o, major |-> major, minor |-> minor,
     patch |-> 0, pr |-> NoneStr, bm |-> NoneStr]

Wildcard ==
    [kind |-> "Wildcard", op |-> "Exact", major |-> 0, minor |-> 0,
     patch |-> 0, pr |-> NoneStr, bm |-> NoneStr]

\* A slip of the Display of FullComparator: Plain writes the build metadata
\* before the pre-release.
FullComparator_fmt_build_first(c) ==
    CASE c.kind = "Plain" ->
            ComparatorOp_fmt(c.op) \o to_string(c.major) \o <<".">>
                \o to_string(c.minor) \o <<".">> \o to_string(c.patch)
                \o (IF c.bm.some THEN <<"+">> \o c.bm.v ELSE <<>>)
                \o (IF c.pr.some THEN <<"-">> \o c.pr.v ELSE <<>>)
      [] c.kind = "WildcardMinor" ->
            ComparatorOp_fmt(c.op) \o to_string(c.major) \o <<".", "*", ".", "*">>
      [] c.kind = "WildcardPatch" ->
            ComparatorOp_fmt(c.op) \o to_string(c.major) \o <<".">>
                \o to_string(c.minor) \o <<".", "*">>
      [] c.kind = "Wildcard" -> <<"*">>

\* impl fmt::Display for FullComparator
FullComparator_fmt(c) ==
    CASE c.kind = "Plain" ->
            ComparatorOp_fmt(c.op) \o to_string(c.major) \o <<".">>
                \o to_string(c.minor) \o <<".">> \o to_string(c.patch)
                \o (IF c.pr.some THEN <<"-">> \o c.pr.v ELSE <<>>)
                \o (IF c.bm.some THEN <<"+">> \o c.bm.v ELSE <<>>)
      [] c.kind = "WildcardMinor" ->
            ComparatorOp_fmt(c.op) \o to_string(c.major) \o <<".", "*", ".", "*">>
      [] c.kind = "WildcardPatch" ->
            ComparatorOp_fmt(c.op) \o to_string(c.major) \o <<".">>
                \o to_string(c.minor) \o <<".", "*">>
      [] c.kind = "Wildcard" -> <<"*">>

RECURSIVE join(_, _)
\* [String]::join
join(strs, sep) ==
    IF Len(strs) = 0 THEN <<>>
    ELSE IF Len(strs) = 1 THEN strs[1]
    ELSE strs[1] \o sep \o join(Tail(strs), sep)

List(l) == [kind |-> "List", list |-> l]

WildcardVec == [kind |-> "Wildcard", list |-> <<>>]

\* impl fmt::Display for ComparatorVec
ComparatorVec_fmt(cv) ==
    CASE cv.kind = "List" ->
            join([i \in 1..Len(cv.list) |-> FullComparator_fmt(cv.list[i])],
                 <<",">>)
      [] cv.kind = "Wildcard" -> <<"*">>

full_comparator_weights(weight_of_plain, weight_of_wildcard_minor, weight_of_wildcard_patch) ==
    <<unwrap_or(weight_of_wildcard_minor, 1),
      unwrap_or(weight_of_wildcard_patch, 1),
      unwrap_or(weight_of_plain, 7)>>

\* A slip of arb_full_comparator: its first branch also yields the bare
\* Wildcard variant.
FullComparatorBranch_with_wildcard(i) ==
    CASE i = 1 ->
            {Wildcard} \cup
            {WildcardMinor(o, major) : o \in ComparatorOp, major \in any_u64}
      [] i = 2 ->
            {WildcardPatch(o, major, minor) :
                o \in ComparatorOp, major \in any_u64, minor \in any_u64}
      [] i = 3 ->
            {Plain(o, major, minor, patch, pr, bm) :
                o \in ComparatorOp, major \in any_u64, minor \in any_u64,
                patch \in any_u64,
                pr \in Short(arb_option_pre_release_string(8)),
                bm \in Short(arb_option_build_metadata_string(8))}

\* The three branches of arb_full_comparator, in the order of its prop_oneof.
FullComparatorBranch(i) ==
    CASE i = 1 ->
            {WildcardMinor(o, major) : o \in ComparatorOp, major \in any_u64}
      [] i = 2 ->
            {WildcardPatch(o, major, minor) :
                o \in ComparatorOp, major \in any_u64, minor \in any_u64}
      [] i = 3 ->
            {Plain(o, major, minor, patch, pr, bm) :
                o \in ComparatorOp, major \in any_u64, minor \in any_u64,
                patch \in any_u64,
                pr \in Short(arb_option_pre_release_string(8)),
                bm \in Short(arb_option_build_metadata_string(8))}

arb_full_comparator(weight_of_plain, weight_of_wildcard_minor, weight_of_wildcard_patch) ==
    UNION {FullComparatorBranch(i) :
              i \in pick_weighted(full_comparator_weights(
                       weight_of_plain, weight_of_wildcard_minor,
                       weight_of_wildcard_patch))}

\* The elements the model builds vectors of comparators from.
CoarseFullComparator(c) ==
    CASE c.kind = "Plain" ->
            /\ c.op \in {"Exact", "LessEq"}
            /\ c.major = U64MAX /\ c.minor = 0 /\ c.patch = U64MAX
            /\ c.pr.some = c.bm.some
            /\ c.pr.some => (c.pr.v = <<"-">> /\ c.bm.v = <<"0">>)
      [] c.kind = "WildcardMinor" ->
            c.op \in {"Exact", "LessEq"} /\ c.major = U64MAX
      [] c.kind = "WildcardPatch" ->
            /\ c.op \in {"Exact", "LessEq"}
            /\ c.major = 0 /\ c.minor = U64MAX
      [] OTHER -> TRUE

FullComparatorPool ==
    {c \in arb_full_comparator(NoneNum, NoneNum, NoneNum) :
        CoarseFullComparator(c)}

arb_comparator_string == 
    {FullComparator_fmt(c) : c \in arb_full_comparator(NoneNum, NoneNum, NoneNum)}

\* A slip of arb_vec_comparator_string: the range 1..=max_len.
arb_vec_comparator_string_inclusive(max_len) ==
    CollectionVecRange({FullComparator_fmt(c) : c \in FullComparatorPool},
                       1, max_len + 1)

arb_vec_comparator_string(max_len) ==
    CollectionVecRange({FullComparator_fmt(c) : c \in FullComparatorPool},
                       1, max_len)

\* A slip of arb_comparator_list: a length of the range 0..max_comparators.
arb_comparator_list_ranged(max_comparators) ==
    CollectionVecRange(FullComparatorPool, 0, max_comparators)

arb_comparator_list(max_comparators) ==
    CollectionVecExact(FullComparatorPool, max_comparators)

vec_weights(weight_of_wildcard, weight_of_comparator_list) ==
    <<unwrap_or(weight_of_wildcard, 1), unwrap_or(weight_of_comparator_list, 14)>>

\* A slip of arb_full_comparator_vec: the list's length drawn from the range
\* 0..max_comparators.
ComparatorVecBranch_ranged(i, max_comparators) ==
    CASE i = 1 -> {WildcardVec}
      [] i = 2 -> {List(l) : l \in arb_comparator_list_ranged(max_comparators)}

\* The two branches of arb_full_comparator_vec, in the order of its prop_oneof.
ComparatorVecBranch(i, max_comparators) ==
    CASE i = 1 -> {WildcardVec}
      [] i = 2 -> {List(l) : l \in arb_comparator_list(max_comparators)}

arb_full_comparator_vec(max_comparators, weight_of_wildcard, weight_of_comparator_list) ==
    UNION {ComparatorVecBranch(i, max_comparators) :
              i \in pick_weighted(vec_weights(weight_of_wildcard,
                                              weight_of_comparator_list))}


(***************************************************************************)
(* Structured comparators and requirements.                                *)
(***************************************************************************)
\* Of the outcomes of Prerelease::new, those with the shortest identifier.
ShortIds(R) == {r \in R : \A q \in R : Len(r.id) <= Len(q.id)}

\* Each value holds the comparator and whether building it succeeded.
arb_semver_comparator ==
    {[ok |-> pre.ok, value |-> Comparator(o, major, minor, patch, pre.id)] :
        o \in arb_semver_op(NoneNum, NoneNum), major \in any_u64,
        minor \in any_Option_u64, patch \in any_Option_u64,
        pre \in ShortIds(arb_semver_prerelease)}

\* The elements the model builds vectors of structured comparators from.
CoarseSemverComparator(c) ==
    c.ok => /\ c.value.op \in {"Exact", "Tilde", "Wildcard"}
            /\ c.value.major = U64MAX
            /\ c.value.minor.some = c.value.patch.some
            /\ c.value.minor.v = 0
            /\ c.value.patch.some => c.value.patch.v = U64MAX
            /\ c.value.pre = <<"0">>

SemverComparatorPool ==
    {c \in arb_semver_comparator : CoarseSemverComparator(c)}

VecOutcome(v) ==
    [ok |-> \A i \in 1..Len(v) : v[i].ok,
     value |-> [i \in 1..Len(v) |-> v[i].value]]

arb_vec_semver_comparator(max_len) ==
    {VecOutcome(v) : v \in CollectionVecRange(SemverComparatorPool, 1, max_len)}

VersionReq(comparators) == [comparators |-> comparators]

arb_semver_version_req(max_len) ==
    {[ok |-> c.ok, value |-> VersionReq(c.value)] :
        c \in arb_vec_semver_comparator(max_len)}

\* Each value holds whether a requirement was drawn and the requirement.
arb_optional_semver_version_req(probability_of_some, max_comparators) ==
    {[ok |-> (c.some => c.v.ok), some |-> c.some,
      value |-> VersionReq(IF c.some THEN c.v.value ELSE <<>>)] :
        c \in OptionWeighted(probability_of_some,
                             arb_vec_semver_comparator(max_comparators))}

\* The elements the model builds vectors of versions from.
CoarseVersion(o) ==
    o.ok => /\ o.value.major = U64MAX /\ o.value.minor = 0
            /\ o.value.patch = U64MAX
            /\ o.value.pre \in {EMPTY, <<"-">>}
            /\ o.value.build \in {EMPTY, <<"0">>}

\* A slip of arb_vec_versions: the range 1..=max_len.
arb_vec_versions_inclusive(max_len) ==
    {VecOutcome(v) :
        v \in CollectionVecRange({o \in arb_version : CoarseVersion(o)},
                                 1, max_len + 1)}

arb_vec_versions(max_len) ==
    {VecOutcome(v) :
        v \in CollectionVecRange({o \in arb_version : CoarseVersion(o)},
                                 1, max_len)}

arb_vec_semver_versions(max_len) ==
    {VecOutcome(v) :
        v \in CollectionVecRange({o \in arb_semver_version : CoarseVersion(o)},
                                 1, max_len)}

\* Each value holds the ComparatorVec drawn, its text and the outcome of
\* VersionReq::parse, which the strategy unwraps.
arb_version_req(max_comparators) ==
    {LET s == ComparatorVec_fmt(cv)
         r == VersionReq_parse(s)
     IN  [ok |-> r.ok, value |-> VersionReq(r.comparators),
          drawn |-> cv, text |-> s] :
        cv \in arb_full_comparator_vec(max_comparators, NoneNum, NoneNum)}

\* Each value holds the vector of comparator texts drawn (when one was), the
\* text joined and the outcome of VersionReq::parse, which the strategy
\* unwraps.
arb_optional_version_req(probability_of_some, max_comparators) ==
    {LET s == join(c.v, <<",">>)
         r == IF c.some THEN VersionReq_parse(s) ELSE ReqOk(<<>>)
     IN  [ok |-> r.ok, some |-> c.some, value |-> VersionReq(r.comparators),
          drawn |-> c.v, text |-> s] :
        c \in OptionWeighted(probability_of_some,
                             arb_vec_comparator_string(max_comparators))}


(***************************************************************************)
(* One case of a run: a generator is called and one value drawn from it.   *)
(* fn names the generator, args its arguments, draw what its inner         *)
(* strategies yielded, text the text it handed to the oracle, and out the  *)
(* value produced, or a panic.                                             *)
(***************************************************************************)
Ok(v) == [ok |-> TRUE, value |-> v]

Panic == [ok |-> FALSE, value |-> <<>>]

Unwrap(o) == IF o.ok THEN Ok(o.value) ELSE Panic

Result(f, a, d, t, o) ==
    /\ fn' = f
    /\ args' = a
    /\ draw' = d
    /\ text' = t
    /\ out' = o

Init ==
    /\ fn = "idle"
    /\ args = <<>>
    /\ draw = <<>>
    /\ text = <<>>
    /\ out = Ok(<<>>)

\* The text of SEMVER_REGEX's groups, in order.
SEMVER_REGEX(major, minor, patch, pr, bm) ==
    major \o <<".">> \o minor \o <<".">> \o patch \o pr \o bm

ArbSemver ==
    /\ fn = "idle"
    /\ \E major \in NumericPattern(MaxSemverLen - 4, FALSE) :
       \E minor \in NumericPattern(MaxSemverLen - Len(major) - 3, FALSE) :
       \E patch \in NumericPattern(MaxSemverLen - Len(major) - Len(minor) - 2,
                                   FALSE) :
       \E pr \in SometimesPreRelease(
                    MaxSemverLen - Len(major) - Len(minor) - Len(patch) - 2,
                    FALSE) :
       \E bm \in SometimesBuildMetadata(
                    MaxSemverLen - Len(major) - Len(minor) - Len(patch)
                        - Len(pr) - 2) :
          Result("arb_semver", <<>>, <<>>, <<>>,
                 Ok(SEMVER_REGEX(major, minor, patch, pr, bm)))

ArbSemverPrerelease ==
    /\ fn = "idle"
    /\ \E pr \in arb_semver_prerelease :
          Result("arb_semver_prerelease", <<>>, <<>>, <<>>,
                 IF pr.ok THEN Ok(pr.id) ELSE Panic)

ArbSemverBuildMetadata ==
    /\ fn = "idle"
    /\ \E bm \in arb_semver_build_metadata :
          Result("arb_semver_build_metadata", <<>>, <<>>, <<>>,
                 IF bm.ok THEN Ok(bm.id) ELSE Panic)

ArbSemverOp ==
    /\ fn = "idle"
    /\ \E default_weight \in WeightArgs, wildcard_weight \in WeightArgs :
          \/ /\ union_panics(semver_op_weights(default_weight, wildcard_weight))
             /\ Result("arb_semver_op", <<default_weight, wildcard_weight>>,
                       <<>>, <<>>, Panic)
          \/ \E o \in arb_semver_op(default_weight, wildcard_weight) :
                Result("arb_semver_op", <<default_weight, wildcard_weight>>,
                       <<>>, <<>>, Ok(o))

ArbSemverComparator ==
    /\ fn = "idle"
    /\ \E c \in arb_semver_comparator :
          Result("arb_semver_comparator", <<>>, <<>>, <<>>, Unwrap(c))

ArbVecSemverComparator ==
    /\ fn = "idle"
    /\ \E max_len \in MaxLenArgs :
          \/ /\ vec_range_panics(1, max_len)
             /\ Result("arb_vec_semver_comparator", <<max_len>>, <<>>, <<>>,
                       Panic)
          \/ \E v \in arb_vec_semver_comparator(max_len) :
                Result("arb_vec_semver_comparator", <<max_len>>, <<>>, <<>>,
                       Unwrap(v))

ArbSemverVersionReq ==
    /\ fn = "idle"
    /\ \E max_len \in MaxLenArgs :
          \/ /\ vec_range_panics(1, max_len)
             /\ Result("arb_semver_version_req", <<max_len>>, <<>>, <<>>, Panic)
          \/ \E r \in arb_semver_version_req(max_len) :
                Result("arb_semver_version_req", <<max_len>>, <<>>, <<>>,
                       Unwrap(r))

ArbOptionalSemverVersionReq ==
    /\ fn = "idle"
    /\ \E p \in ProbabilityArgs, max_comparators \in MaxLenArgs :
          \/ /\ vec_range_panics(1, max_comparators)
             /\ Result("arb_optional_semver_version_req",
                       <<p, max_comparators>>, <<>>, <<>>, Panic)
          \/ \E r \in arb_optional_semver_version_req(p, max_comparators) :
                Result("arb_optional_semver_version_req",
                       <<p, max_comparators>>, [some |-> r.some], <<>>,
                       Unwrap(r))

VersionDraw(o) ==
    [major |-> o.major, minor |-> o.minor, patch |-> o.patch,
     pr |-> o.pr, bm |-> o.bm]

ArbVersionWeighted ==
    /\ fn = "idle"
    /\ \E p1 \in ProbabilityArgs, p2 \in ProbabilityArgs :
       \E o \in arb_version_weighted(p1, p2) :
          Result("arb_version_weighted", <<p1, p2>>, VersionDraw(o), o.text,
                 Unwrap(o))

ArbVersion ==
    /\ fn = "idle"
    /\ \E o \in arb_version :
          Result("arb_version", <<>>, VersionDraw(o), o.text, Unwrap(o))

ArbSemverVersionWeighted ==
    /\ fn = "idle"
    /\ \E p1 \in ProbabilityArgs, p2 \in ProbabilityArgs :
       \E o \in arb_semver_version_weighted(p1, p2) :
          Result("arb_semver_version_weighted", <<p1, p2>>,
                 [pre |-> o.pre, build |-> o.build], <<>>, Unwrap(o))

ArbSemverVersion ==
    /\ fn = "idle"
    /\ \E o \in arb_semver_version :
          Result("arb_semver_version", <<>>,
                 [pre |-> o.pre, build |-> o.build], <<>>, Unwrap(o))

ArbVecVersions ==
    /\ fn = "idle"
    /\ \E max_len \in MaxLenArgs :
          \/ /\ vec_range_panics(1, max_len)
             /\ Result("arb_vec_versions", <<max_len>>, <<>>, <<>>, Panic)
          \/ \E v \in arb_vec_versions(max_len) :
                Result("arb_vec_versions", <<max_len>>, <<>>, <<>>, Unwrap(v))

ArbVecSemverVersions ==
    /\ fn = "idle"
    /\ \E max_len \in MaxLenArgs :
          \/ /\ vec_range_panics(1, max_len)
             /\ Result("arb_vec_semver_versions", <<max_len>>, <<>>, <<>>,
                       Panic)
          \/ \E v \in arb_vec_semver_versions(max_len) :
                Result("arb_vec_semver_versions", <<max_len>>, <<>>, <<>>,
                       Unwrap(v))


ArbFullComparator ==
    /\ fn = "idle"
    /\ \E weight_of_plain \in WeightArgs,
          weight_of_wildcard_minor \in WeightArgs,
          weight_of_wildcard_patch \in WeightArgs :
          LET a == <<weight_of_plain, weight_of_wildcard_minor,
                     weight_of_wildcard_patch>>
          IN  \/ /\ union_panics(full_comparator_weights(
                        weight_of_plain, weight_of_wildcard_minor,
                        weight_of_wildcard_patch))
                 /\ Result("arb_full_comparator", a, <<>>, <<>>, Panic)
              \/ \E c \in arb_full_comparator(weight_of_plain,
                                              weight_of_wildcard_minor,
                                              weight_of_wildcard_patch) :
                    Result("arb_full_comparator", a, <<>>,
                           FullComparator_fmt(c), Ok(c))

ArbComparatorString ==
    /\ fn = "idle"
    /\ \E c \in arb_comparator_string :
          Result("arb_comparator_string", <<>>, <<>>, c, Ok(c))

ArbVecComparatorString ==
    /\ fn = "idle"
    /\ \E max_len \in MaxLenArgs :
          \/ /\ vec_range_panics(1, max_len)
             /\ Result("arb_vec_comparator_string", <<max_len>>, <<>>, <<>>,
                       Panic)
          \/ \E v \in arb_vec_comparator_string(max_len) :
                Result("arb_vec_comparator_string", <<max_len>>, <<>>,
                       join(v, <<",">>), Ok(v))

ArbComparatorList ==
    /\ fn = "idle"
    /\ \E max_comparators \in MaxComparatorsArgs :
       \E l \in arb_comparator_list(max_comparators) :
          Result("arb_comparator_list", <<max_comparators>>, <<>>,
                 ComparatorVec_fmt(List(l)), Ok(l))

ArbFullComparatorVec ==
    /\ fn = "idle"
    /\ \E max_comparators \in MaxComparatorsArgs,
          weight_of_wildcard \in WeightArgs,
          weight_of_comparator_list \in WeightArgs :
          LET a == <<max_comparators, weight_of_wildcard,
                     weight_of_comparator_list>>
          IN  \/ /\ union_panics(vec_weights(weight_of_wildcard,
                                             weight_of_comparator_list))
                 /\ Result("arb_full_comparator_vec", a, <<>>, <<>>, Panic)
              \/ \E cv \in arb_full_comparator_vec(max_comparators,
                                                   weight_of_wildcard,
                                                   weight_of_comparator_list) :
                    Result("arb_full_comparator_vec", a, <<>>,
                           ComparatorVec_fmt(cv), Ok(cv))

ArbVersionReq ==
    /\ fn = "idle"
    /\ \E max_comparators \in MaxComparatorsArgs :
       \E r \in arb_version_req(max_comparators) :
          Result("arb_version_req", <<max_comparators>>, r.drawn, r.text,
                 Unwrap(r))

\* The max_comparators the model calls arb_optional_version_req with.
OptionalReqArgs ==
    MaxLenArgs \cup {MAX_COMPARATORS_IN_VERSION_REQ_STRING,
                     MAX_COMPARATORS_IN_VERSION_REQ_STRING + 1,
                     MAX_COMPARATORS_IN_VERSION_REQ_STRING + 2}

ArbOptionalVersionReq ==
    /\ fn = "idle"
    /\ \E p \in ProbabilityArgs, max_comparators \in OptionalReqArgs :
          \/ /\ vec_range_panics(1, max_comparators)
             /\ Result("arb_optional_version_req", <<p, max_comparators>>,
                       <<>>, <<>>, Panic)
          \/ \E r \in arb_optional_version_req(p, max_comparators) :
                Result("arb_optional_version_req", <<p, max_comparators>>,
                       [some |-> r.some, v |-> r.drawn], r.text, Unwrap(r))

(***************************************************************************)
(* The Display of the structural models, on any value of their types: the  *)
(* types and their variants are public, so a caller can build and render   *)
(* values the strategies never yield.                                      *)
(***************************************************************************)
\* The FullComparator values the model renders: every variant and operator,
\* numbers of one and of two digits, and each Option<String> absent or
\* present.
FullComparatorValues ==
    LET nums == {0, 7, 10, U64MAX}
        strs == {NoneStr, Some(<<"a">>), Some(<<"0", ".", "-">>)}
    IN  {Wildcard}
        \cup {WildcardMinor(o, major) : o \in ComparatorOp, major \in nums}
        \cup {WildcardPatch(o, major, minor) :
                o \in ComparatorOp, major \in nums, minor \in nums}
        \cup {Plain(o, major, minor, patch, pr, bm) :
                o \in ComparatorOp, major \in nums, minor \in nums,
                patch \in nums, pr \in strs, bm \in strs}

\* The ComparatorVec values the model renders: the Wildcard, and the lists of
\* up to three comparators of four shapes.
ComparatorVecValues ==
    LET pool == {Wildcard, WildcardMinor("Caret", 7),
                 WildcardPatch("LessEq", 10, 7),
                 Plain("GreaterEq", 0, 10, U64MAX, Some(<<"a">>),
                       Some(<<"0">>))}
    IN  {WildcardVec} \cup {List(l) : l \in SeqsUpTo(pool, 3)}

DisplayComparatorOp ==
    /\ fn = "idle"
    /\ \E o \in ComparatorOp :
          Result("ComparatorOp::fmt", <<o>>, <<>>, ComparatorOp_fmt(o),
                 Ok(ComparatorOp_fmt(o)))

DisplayFullComparator ==
    /\ fn = "idle"
    /\ \E c \in FullComparatorValues :
          Result("FullComparator::fmt", <<c>>, <<>>, FullComparator_fmt(c),
                 Ok(FullComparator_fmt(c)))

DisplayComparatorVec ==
    /\ fn = "idle"
    /\ \E cv \in ComparatorVecValues :
          Result("ComparatorVec::fmt", <<cv>>, <<>>, ComparatorVec_fmt(cv),
                 Ok(ComparatorVec_fmt(cv)))

Next ==
    \/ ArbSemver
    \/ ArbSemverPrerelease
    \/ ArbSemverBuildMetadata
    \/ ArbSemverOp
    \/ ArbSemverComparator
    \/ ArbVecSemverComparator
    \/ ArbSemverVersionReq
    \/ ArbOptionalSemverVersionReq
    \/ ArbVersionWeighted
    \/ ArbVersion
    \/ ArbSemverVersionWeighted
    \/ ArbSemverVersion
    \/ ArbVecVersions
    \/ ArbVecSemverVersions
    \/ ArbFullComparator
    \/ ArbComparatorString
    \/ ArbVecComparatorString
    \/ ArbComparatorList
    \/ ArbFullComparatorVec
    \/ ArbVersionReq
    \/ ArbOptionalVersionReq
    \/ DisplayComparatorOp
    \/ DisplayFullComparator
    \/ DisplayComparatorVec

Spec == Init /\ [][Next]_vars

(***************************************************************************)
(* The properties.  Each is stated over one case of a run: the generator   *)
(* called (fn), its arguments (args), what its inner strategies yielded    *)
(* (draw), the text rendered (text) and the value produced (out).          *)
(***************************************************************************)
ListBranchDrawn == draw.kind = "List"

\* C1: with the oracle's limit of 32 comparators, arb_version_req(32) yields
\* a requirement for every draw, and arb_version_req(33) panics whenever the
\* ComparatorVec::List branch is drawn.
C1_MaxComparatorsBoundary ==
    fn = "arb_version_req" =>
        /\ args = <<MAX_COMPARATORS_IN_VERSION_REQ_STRING>> => out.ok
        /\ (/\ args = <<MAX_COMPARATORS_IN_VERSION_REQ_STRING + 1>>
            /\ ListBranchDrawn) => ~out.ok

\* arb_version_req(33) drew a list of 33 comparators, the oracle rejected its
\* text for the number of comparators, and the generator panicked.
C1_Witness ==
    /\ fn = "arb_version_req"
    /\ args = <<33>>
    /\ ListBranchDrawn
    /\ Len(draw.list) = 33
    /\ VersionReq_parse(text).err = "ExcessiveComparators"
    /\ ~out.ok

\* C2: the text of every FullComparator of arb_full_comparator is accepted by
\* the oracle's comparator parser and by its requirement parser, and for
\* 1 <= n <= 32 the joined text of every list of arb_comparator_list(n) and
\* of every ComparatorVec of arb_full_comparator_vec(n, ..) is accepted by the
\* oracle's requirement parser.
C2_RoundTripThroughText ==
    /\ (fn = "arb_full_comparator" /\ out.ok) =>
            /\ text = FullComparator_fmt(out.value)
            /\ Comparator_parse(text).ok
            /\ VersionReq_parse(text).ok
    /\ (/\ fn \in {"arb_comparator_list", "arb_full_comparator_vec"}
        /\ out.ok
        /\ args[1] \in 1..MAX_COMPARATORS_IN_VERSION_REQ_STRING) =>
            VersionReq_parse(text).ok

\* arb_comparator_list(32) yielded 32 comparators of two different shapes and
\* the oracle read 32 comparators back from their joined text.
C2_Witness ==
    /\ fn = "arb_comparator_list"
    /\ args = <<32>>
    /\ out.value[1].kind = "Plain"
    /\ out.value[1].pr.some
    /\ out.value[1].bm.some
    /\ out.value[2].kind = "WildcardPatch"
    /\ VersionReq_parse(text).ok
    /\ Len(VersionReq_parse(text).comparators) = 32

GeneratedVariants == {"Plain", "WildcardMinor", "WildcardPatch"}

\* C3: arb_full_comparator yields only Plain, WildcardMinor or WildcardPatch
\* for every choice of its weights, and no element of a list of
\* arb_comparator_list or of a ComparatorVec::List of arb_full_comparator_vec
\* is the FullComparator::Wildcard variant.
C3_NoWildcardVariant ==
    /\ (fn = "arb_full_comparator" /\ out.ok) =>
            out.value.kind \in GeneratedVariants
    /\ fn = "arb_comparator_list" =>
            \A i \in 1..Len(out.value) : out.value[i].kind # "Wildcard"
    /\ (fn = "arb_full_comparator_vec" /\ out.ok /\ out.value.kind = "List") =>
            \A i \in 1..Len(out.value.list) :
                out.value.list[i].kind \in GeneratedVariants

\* arb_full_comparator_vec yielded a List holding a WildcardMinor and a
\* WildcardPatch comparator.
C3_Witness ==
    /\ fn = "arb_full_comparator_vec"
    /\ out.ok
    /\ out.value.kind = "List"
    /\ Len(out.value.list) >= 2
    /\ out.value.list[1].kind = "WildcardMinor"
    /\ out.value.list[2].kind = "WildcardPatch"

BoundedVecGenerators ==
    {"arb_vec_versions", "arb_vec_semver_versions",
     "arb_vec_comparator_string", "arb_vec_semver_comparator"}

\* C4: called with max_len >= 2, each of arb_vec_versions,
\* arb_vec_semver_versions, arb_vec_comparator_string and
\* arb_vec_semver_comparator yields vectors of 1 to max_len - 1 elements.
C4_BoundedVecLength ==
    (fn \in BoundedVecGenerators /\ args[1] >= 2) =>
        /\ out.ok
        /\ Len(out.value) >= 1
        /\ Len(out.value) <= args[1] - 1

\* arb_vec_semver_comparator yielded a vector of the greatest length its
\* max_len allows.
C4_Witness ==
    /\ fn = "arb_vec_semver_comparator"
    /\ args[1] >= 3
    /\ out.ok
    /\ Len(out.value) = args[1] - 1

\* The list a case of arb_comparator_list or arb_full_comparator_vec yielded.
ListYielded == IF fn = "arb_comparator_list" THEN out.value ELSE out.value.list

YieldsList ==
    \/ fn = "arb_comparator_list"
    \/ fn = "arb_full_comparator_vec" /\ out.ok /\ out.value.kind = "List"

\* C5, as stated: for every max_comparators, the list of
\* arb_comparator_list(max_comparators), and of the List branch of
\* arb_full_comparator_vec, has at most max_comparators elements and at least
\* one element.
C5_AsStated ==
    YieldsList =>
        /\ Len(ListYielded) <= args[1]
        /\ Len(ListYielded) >= 1

\* C5, amended: for every max_comparators >= 1, the list of
\* arb_comparator_list(max_comparators), and of the List branch of
\* arb_full_comparator_vec, has at most max_comparators elements and at least
\* one element; it has exactly max_comparators elements, so with 0 it is empty.
C5_ComparatorListLength ==
    YieldsList =>
        /\ Len(ListYielded) = args[1]
        /\ args[1] >= 1 =>
              /\ Len(ListYielded) <= args[1]
              /\ Len(ListYielded) >= 1

\* arb_comparator_list(2) yielded a list of two comparators.
C5_Witness ==
    /\ fn = "arb_comparator_list"
    /\ args = <<2>>
    /\ Len(out.value) = 2

RequirementGenerators ==
    {"arb_version_req", "arb_optional_version_req", "arb_semver_version_req",
     "arb_optional_semver_version_req"}

\* C6: in every requirement of arb_version_req, arb_optional_version_req,
\* arb_semver_version_req and arb_optional_semver_version_req, a comparator
\* whose operator is Wildcard is the only comparator of the requirement.
C6_WildcardOpOnlyAlone ==
    (fn \in RequirementGenerators /\ out.ok) =>
        \A i \in 1..Len(out.value.comparators) :
            out.value.comparators[i].op = "Wildcard" =>
                Len(out.value.comparators) = 1

default_weight == unwrap_or(args[1], 5)

wildcard_weight == unwrap_or(args[2], 1)

\* C7, as stated: arb_semver_op chooses among the eight operators; a weight
\* of zero causes no failure and makes its branch unreachable, so
\* arb_semver_op(Some(0), Some(1)) always yields Wildcard, and with
\* wildcard_weight = 0 and default_weight > 0 it never yields Wildcard.
C7_AsStated ==
    fn = "arb_semver_op" =>
        /\ out.ok
        /\ out.value \in {SemverOps[i] : i \in 1..Len(SemverOps)}
        /\ default_weight = 0 => out.value = "Wildcard"
        /\ wildcard_weight = 0 => out.value # "Wildcard"

\* C7, amended: arb_semver_op chooses among the eight operators; a weight of
\* zero makes its branch unreachable, and causes no failure provided the
\* other weight is positive (with both weights zero the strategy panics when
\* a value is drawn), so arb_semver_op(Some(0), Some(1)) always yields
\* Wildcard, and with wildcard_weight = 0 and default_weight > 0 it never
\* yields Wildcard.
C7_OperatorWeights ==
    fn = "arb_semver_op" =>
        /\ out.ok <=> (default_weight > 0 \/ wildcard_weight > 0)
        /\ out.ok =>
              /\ out.value \in {SemverOps[i] : i \in 1..Len(SemverOps)}
              /\ default_weight = 0 => out.value = "Wildcard"
              /\ wildcard_weight = 0 => out.value # "Wildcard"

\* arb_semver_op(Some(0), Some(1)) yielded Wildcard.
C7_Witness ==
    /\ fn = "arb_semver_op"
    /\ args = <<Some(0), Some(1)>>
    /\ out = Ok("Wildcard")

\* C8: every text of arb_semver is ASCII only, and the oracle's version
\* parser accepts it or rejects it because a numeric component exceeds
\* u64::MAX, and for no other reason.
C8_SemverAsciiAndOverflowOnly ==
    fn = "arb_semver" =>
        /\ is_ascii(out.value)
        /\ \/ Version_parse(out.value).ok
           \/ IsOverflowError(Version_parse(out.value))

\* arb_semver yielded a text with a pre-release and build metadata whose
\* patch exceeds u64::MAX, and the oracle rejected it for that.
C8_Witness ==
    /\ fn = "arb_semver"
    /\ \E i \in 1..Len(out.value) : out.value[i] = "-"
    /\ \E i \in 1..Len(out.value) : out.value[i] = "+"
    /\ IsOverflowError(Version_parse(out.value))

MajorMinorPatch ==
    draw.major \o <<".">> \o draw.minor \o <<".">> \o draw.patch

StructPathGenerators == {"arb_semver_version_weighted", "arb_semver_version"}

\* C10: every Version of arb_semver_version_weighted and arb_semver_version
\* has the empty pre-release exactly when no pre-release was drawn and the
\* empty build metadata exactly when no build metadata was drawn; a part
\* drawn is never empty; and the two are decided independently: from a call
\* of arb_semver_version each of the four combinations can come.
C10_StructPathEmptyValues ==
    /\ (fn \in StructPathGenerators /\ out.ok) =>
            /\ out.value.pre = EMPTY <=> ~draw.pre.some
            /\ out.value.build = EMPTY <=> ~draw.build.some
            /\ draw.pre.some =>
                  out.value.pre = draw.pre.v /\ Len(out.value.pre) > 0
            /\ draw.build.some =>
                  out.value.build = draw.build.v /\ Len(out.value.build) > 0
    /\ fn = "idle" =>
            \A noPre \in BOOLEAN, noBuild \in BOOLEAN :
                ENABLED (/\ ArbSemverVersion
                         /\ out'.ok
                         /\ (out'.value.pre = EMPTY) = noPre
                         /\ (out'.value.build = EMPTY) = noBuild)

\* arb_semver_version_weighted drew a pre-release and no build metadata: the
\* Version has that pre-release and the empty build metadata.
C10_Witness ==
    /\ fn = "arb_semver_version_weighted"
    /\ out.ok
    /\ draw.pre.some
    /\ ~draw.build.some
    /\ out.value.pre # EMPTY
    /\ out.value.build = EMPTY

\* The ComparatorVec values the call of arb_full_comparator_vec of this case
\* can yield.
VecProducible == arb_full_comparator_vec(args[1], args[2], args[3])

ListWeightPositive == unwrap_or(args[3], 14) > 0

\* C11, as stated: arb_full_comparator_vec(max_comparators, ..) yields
\* ComparatorVec::Wildcard or a ComparatorVec::List whose length is drawn from
\* the range 0..max_comparators, so that (with a positive weight of the list
\* and max_comparators >= 1) a list shorter than max_comparators and the
\* empty list are producible.
C11_AsStated ==
    (fn = "arb_full_comparator_vec" /\ out.ok) =>
        /\ out.value.kind \in {"Wildcard", "List"}
        /\ out.value.kind = "List" => Len(out.value.list) \in 0..args[1]
        /\ (ListWeightPositive /\ args[1] >= 1) =>
              /\ \E cv \in VecProducible :
                    cv.kind = "List" /\ Len(cv.list) < args[1]
              /\ List(<<>>) \in VecProducible

\* C11, amended: arb_full_comparator_vec(max_comparators, ..) yields
\* ComparatorVec::Wildcard or a ComparatorVec::List of exactly
\* max_comparators elements: no list shorter than max_comparators is
\* producible, the empty list is producible only with max_comparators = 0,
\* and each of the two is producible when its weight is positive.
C11_ComparatorVecShape ==
    (fn = "arb_full_comparator_vec" /\ out.ok) =>
        /\ out.value.kind \in {"Wildcard", "List"}
        /\ LET producible == VecProducible
           IN  /\ \A cv \in producible :
                     cv.kind = "List" => Len(cv.list) = args[1]
               /\ List(<<>>) \in producible <=>
                     (ListWeightPositive /\ args[1] = 0)
               /\ WildcardVec \in producible <=> unwrap_or(args[2], 1) > 0
               /\ (\E cv \in producible : cv.kind = "List") <=>
                     ListWeightPositive

\* arb_full_comparator_vec(2, None, None) yielded a list of two comparators,
\* and could have yielded the Wildcard, but no list of one or of none.
C11_Witness ==
    /\ fn = "arb_full_comparator_vec"
    /\ args = <<2, NoneNum, NoneNum>>
    /\ out.ok
    /\ out.value.kind = "List"
    /\ Len(out.value.list) = 2
    /\ WildcardVec \in VecProducible
    /\ \A cv \in VecProducible : cv.kind = "List" => Len(cv.list) = 2

\* The pre-releases arb_semver_comparator draws its pre field from.
ComparatorPreReleases == {pre.id : pre \in {p \in arb_semver_prerelease : p.ok}}

\* C12: arb_semver_comparator builds a comparator with a major, with minor
\* and patch each present or absent independently (the four combinations are
\* producible), and with an optional pre-release: a comparator with the empty
\* pre-release and a comparator with a pre-release are both producible.
C12_ComparatorOptionalParts ==
    (fn = "arb_semver_comparator" /\ out.ok) =>
        /\ out.value.major \in 0..U64MAX
        /\ \A hasMinor \in BOOLEAN, hasPatch \in BOOLEAN :
              \E c \in arb_semver_comparator :
                  /\ c.ok
                  /\ c.value.minor.some = hasMinor
                  /\ c.value.patch.some = hasPatch
        /\ \E pre \in ComparatorPreReleases : pre # EMPTY
        /\ EMPTY \in ComparatorPreReleases

\* The text the spec gives each ComparatorOp.
OpText ==
    [Exact |-> <<"=">>, Greater |-> <<">">>, GreaterEq |-> <<">", "=">>,
     Less |-> <<"<">>, LessEq |-> <<"<", "=">>, Tilde |-> <<"~">>,
     Caret |-> <<"^">>]

\* '-' and the pre-release, or '+' and the build metadata, when present.
Suffix(mark, o) == IF o.some THEN <<mark>> \o o.v ELSE <<>>

RECURSIVE ElementStart(_, _)
\* Where the rendering of element i of a list starts in the list's text:
\* after the renderings of the elements before it and a ',' for each.
ElementStart(l, i) ==
    IF i = 1 THEN 1
    ELSE ElementStart(l, i - 1) + Len(FullComparator_fmt(l[i - 1])) + 1

\* C13: a ComparatorOp renders as '=', '>', '>=', '<', '<=', '~' or '^';
\* Plain(op, M, m, p, pre, bm) renders as op, 'M.m.p', '-pre' if pre is
\* present, '+bm' if bm is present; WildcardMinor(op, M) as 'opM.*.*';
\* WildcardPatch(op, M, m) as 'opM.m.*'; FullComparator::Wildcard as '*';
\* a ComparatorVec::List as its elements' renderings in order with a ','
\* between two of them; ComparatorVec::Wildcard as '*'.
C13_Rendering ==
    /\ fn = "ComparatorOp::fmt" => text = OpText[args[1]]
    /\ fn = "FullComparator::fmt" =>
          LET c == args[1]
          IN  /\ c.kind = "Plain" =>
                    text = OpText[c.op] \o to_string(c.major) \o <<".">>
                             \o to_string(c.minor) \o <<".">>
                             \o to_string(c.patch) \o Suffix("-", c.pr)
                             \o Suffix("+", c.bm)
              /\ c.kind = "WildcardMinor" =>
                    text = OpText[c.op] \o to_string(c.major)
                             \o <<".", "*", ".", "*">>
              /\ c.kind = "WildcardPatch" =>
                    text = OpText[c.op] \o to_string(c.major) \o <<".">>
                             \o to_string(c.minor) \o <<".", "*">>
              /\ c.kind = "Wildcard" => text = <<"*">>
    /\ fn = "ComparatorVec::fmt" =>
          LET cv == args[1]
              n == Len(cv.list)
          IN  /\ cv.kind = "Wildcard" => text = <<"*">>
              /\ (cv.kind = "List" /\ n = 0) => text = <<>>
              /\ (cv.kind = "List" /\ n > 0) =>
                    /\ Len(text) = ElementStart(cv.list, n)
                                      + Len(FullComparator_fmt(cv.list[n])) - 1
                    /\ \A i \in 1..n :
                          SubSeq(text, ElementStart(cv.list, i),
                                 ElementStart(cv.list, i)
                                   + Len(FullComparator_fmt(cv.list[i])) - 1)
                            = FullComparator_fmt(cv.list[i])
                    /\ \A i \in 2..n :
                          text[ElementStart(cv.list, i) - 1] = ","
    /\ (fn \in {"ComparatorOp::fmt", "FullComparator::fmt",
                "ComparatorVec::fmt"}) => out = Ok(text)

\* WildcardPatch(LessEq, 10, 7) was rendered as '<=10.7.*'.
C13_Witness ==
    /\ fn = "FullComparator::fmt"
    /\ args[1] = WildcardPatch("LessEq", 10, 7)
    /\ text = <<"<", "=", "1", "0", ".", "7", ".", "*">>

StringPathGenerators == {"arb_version_weighted", "arb_version"}

\* The decimal renderings of the 64-bit unsigned integers.
U64Decimals == {to_string(v) : v \in 0..U64MAX}

\* The text of the case with another pre-release and build metadata.
TextWith(pr, bm) == fmt_string(draw.major, draw.minor, draw.patch, pr, bm)

SharedRange == 2..MAX_COMPARATORS_IN_VERSION_REQ_STRING

\* C15: for 2 <= n <= 32, arb_optional_version_req(p, n) does not fail and,
\* when it yields a requirement, has parsed the join of 1 to n - 1
\* comparator texts, none of them and never the whole text the bare '*';
\* arb_version_req(n) does not fail and has parsed the bare '*' or the join
\* of exactly n comparator texts.
C15_StringPathRequirementShapes ==
    /\ (fn = "arb_optional_version_req" /\ args[2] \in SharedRange) =>
          /\ out.ok
          /\ draw.some =>
                /\ Len(draw.v) \in 1..(args[2] - 1)
                /\ text # <<"*">>
                /\ \A i \in 1..Len(draw.v) :
                      /\ draw.v[i] # <<"*">>
                      /\ \A k \in 1..Len(draw.v[i]) : draw.v[i][k] # ","
                /\ Cardinality({k \in 1..Len(text) : text[k] = ","})
                      = Len(draw.v) - 1
                /\ Len(out.value.comparators) = Len(draw.v)
          /\ ~draw.some => text = <<>>
    /\ (fn = "arb_version_req" /\ args[1] \in SharedRange) =>
          /\ out.ok
          /\ \/ /\ draw.kind = "Wildcard"
                /\ text = <<"*">>
                /\ out.value.comparators = <<>>
             \/ /\ draw.kind = "List"
                /\ Len(draw.list) = args[1]
                /\ Cardinality({k \in 1..Len(text) : text[k] = ","})
                      = args[1] - 1
                /\ Len(out.value.comparators) = args[1]

\* arb_optional_version_req(p, 32) drew 31 comparator texts and the oracle
\* read 31 comparators from their join, where arb_version_req(32) yields the
\* Wildcard or 32.
C15_Witness ==
    /\ fn = "arb_optional_version_req"
    /\ args[2] = 32
    /\ draw.some
    /\ Len(draw.v) = 31
    /\ out.ok
    /\ Len(out.value.comparators) = 31
    /\ \A r \in arb_version_req(2) :
          r.drawn.kind = "Wildcard" \/ Len(r.drawn.list) = 2


=============================================================================
